---- MODULE Spec2Model ----
\* Model of generate_api_business_content.py: the content resolver
\* generate_api_content(path, description) with its two classification chains
\* and its two table lookups.
\*
\* Strings are sequences of characters. An ASCII character is the one-character
\* string itself; a CJK character is written "uXXXX" with its code point, and
\* the original text is given in the comment next to it.
\*
\* The source as shipped holds string literals that end early (for instance
\* line 43); such a line is modelled as the one list entry it is written to
\* be, and the entry's field closed records FALSE for it.
EXTENDS Integers, Sequences, FiniteSets, TLC

VARIABLES path, description, pc, category, api_type, scenarios, rules

vars == <<path, description, pc, category, api_type, scenarios, rules>>

\* Literals of get_api_category (lines 265-275): path markers.
mk_auth == <<"/", "a", "u", "t", "h", "/">>  \* '/auth/'
mk_lottery == <<"/", "l", "o", "t", "t", "e", "r", "y", "/">>  \* '/lottery/'
mk_points == <<"/", "p", "o", "i", "n", "t", "s", "/">>  \* '/points/'
mk_inventory == <<"/", "i", "n", "v", "e", "n", "t", "o", "r", "y", "/">>  \* '/inventory/'
mk_consumption == <<"/", "c", "o", "n", "s", "u", "m", "p", "t", "i", "o", "n", "/">>  \* '/consumption/'
mk_admin == <<"/", "a", "d", "m", "i", "n", "/">>  \* '/admin/'
\* Literals of get_api_category: description keywords.
kw_token == <<"t", "o", "k", "e", "n">>  \* 'token'
zh_choujiang == <<"u62bd", "u5956">>  \* '抽奖'
zh_jifen == <<"u79ef", "u5206">>  \* '积分'
zh_kucun == <<"u5e93", "u5b58">>  \* '库存'
zh_xiaofei == <<"u6d88", "u8d39">>  \* '消费'
zh_guanli == <<"u7ba1", "u7406">>  \* '管理'
\* Literals of generate_api_content (lines 319-357): path keyword and
\* description phrase of each test. 'login' and '兑换' also occur in
\* get_api_category (lines 265, 271).
kw_login == <<"l", "o", "g", "i", "n">>  \* 'login'
zh_denglu == <<"u767b", "u5f55">>  \* '登录'
kw_profile == <<"p", "r", "o", "f", "i", "l", "e">>  \* 'profile'
zh_yonghuxinxi == <<"u7528", "u6237", "u4fe1", "u606f">>  \* '用户信息'
kw_verify == <<"v", "e", "r", "i", "f", "y">>  \* 'verify'
zh_yanzheng == <<"u9a8c", "u8bc1">>  \* '验证'
kw_refresh == <<"r", "e", "f", "r", "e", "s", "h">>  \* 'refresh'
zh_shuaxin == <<"u5237", "u65b0">>  \* '刷新'
kw_logout == <<"l", "o", "g", "o", "u", "t">>  \* 'logout'
zh_tuichu == <<"u9000", "u51fa">>  \* '退出'
kw_draw == <<"d", "r", "a", "w">>  \* 'draw'
zh_zhixingchoujiang == <<"u6267", "u884c", "u62bd", "u5956">>  \* '执行抽奖'
kw_history == <<"h", "i", "s", "t", "o", "r", "y">>  \* 'history'
zh_lishi == <<"u5386", "u53f2">>  \* '历史'
kw_config == <<"c", "o", "n", "f", "i", "g">>  \* 'config'
zh_peizhi == <<"u914d", "u7f6e">>  \* '配置'
kw_prizes == <<"p", "r", "i", "z", "e", "s">>  \* 'prizes'
zh_jiangpin == <<"u5956", "u54c1">>  \* '奖品'
kw_balance == <<"b", "a", "l", "a", "n", "c", "e">>  \* 'balance'
zh_yue == <<"u4f59", "u989d">>  \* '余额'
kw_transactions == <<"t", "r", "a", "n", "s", "a", "c", "t", "i", "o", "n", "s">>  \* 'transactions'
zh_jiaoyi == <<"u4ea4", "u6613">>  \* '交易'
kw_adjust == <<"a", "d", "j", "u", "s", "t">>  \* 'adjust'
zh_tiaozheng == <<"u8c03", "u6574">>  \* '调整'
kw_use == <<"u", "s", "e">>  \* 'use'
zh_shiyong == <<"u4f7f", "u7528">>  \* '使用'
kw_exchange == <<"e", "x", "c", "h", "a", "n", "g", "e">>  \* 'exchange'
zh_duihuan == <<"u5151", "u6362">>  \* '兑换'
kw_transfer == <<"t", "r", "a", "n", "s", "f", "e", "r">>  \* 'transfer'
zh_zhuanrang == <<"u8f6c", "u8ba9">>  \* '转让'
kw_submit == <<"s", "u", "b", "m", "i", "t">>  \* 'submit'
zh_tijiao == <<"u63d0", "u4ea4">>  \* '提交'
kw_approve == <<"a", "p", "p", "r", "o", "v", "e">>  \* 'approve'
zh_tongguo == <<"u901a", "u8fc7">>  \* '通过'
kw_reject == <<"r", "e", "j", "e", "c", "t">>  \* 'reject'
zh_jujue == <<"u62d2", "u7edd">>  \* '拒绝'
kw_dashboard == <<"d", "a", "s", "h", "b", "o", "a", "r", "d">>  \* 'dashboard'
zh_yibiaopan == <<"u4eea", "u8868", "u76d8">>  \* '仪表盘'
kw_users == <<"u", "s", "e", "r", "s">>  \* 'users'
zh_yonghuguanli == <<"u7528", "u6237", "u7ba1", "u7406">>  \* '用户管理'

\* The two lookup tables. An entry is one line of the source: its line number,
\* the title between the leading '**' and the separator, and whether the
\* separator is the well-formed "**: " (closed) or the "': " that ends the
\* string literal early. The original title is given in the comment.

API_SCENARIOS ==
  [
    auth |-> [
      login |-> <<
        [line |-> 14, title |-> "u7528u6237u9996u6b21u6ce8u518cu573au666f", closed |-> TRUE],  \* 用户首次注册场景
        [line |-> 15, title |-> "u8001u7528u6237u5febu901fu767bu5f55u573au666f", closed |-> TRUE],  \* 老用户快速登录场景
        [line |-> 16, title |-> "u591au8bbeu5907u767bu5f55u573au666f", closed |-> TRUE],  \* 多设备登录场景
        [line |-> 17, title |-> "u5b89u5168u9a8cu8bc1u573au666f", closed |-> TRUE],  \* 安全验证场景
        [line |-> 18, title |-> "u81eau52a8u521du59cbu5316u573au666f", closed |-> TRUE]  \* 自动初始化场景
      >>,
      profile |-> <<
        [line |-> 21, title |-> "u4e2au4ebau4fe1u606fu67e5u770bu573au666f", closed |-> TRUE],  \* 个人信息查看场景
        [line |-> 22, title |-> "u4fe1u606fu5b8cu6574u6027u9a8cu8bc1u573au666f", closed |-> TRUE],  \* 信息完整性验证场景
        [line |-> 23, title |-> "u6743u9650u786eu8ba4u573au666f", closed |-> TRUE],  \* 权限确认场景
        [line |-> 24, title |-> "u8d26u6237u72b6u6001u68c0u67e5u573au666f", closed |-> TRUE],  \* 账户状态检查场景
        [line |-> 25, title |-> "u6570u636eu540cu6b65u573au666f", closed |-> TRUE]  \* 数据同步场景
      >>,
      verify |-> <<
        [line |-> 28, title |-> "Tokenu6709u6548u6027u9a8cu8bc1u573au666f", closed |-> TRUE],  \* Token有效性验证场景
        [line |-> 29, title |-> "u81eau52a8u5237u65b0Tokenu573au666f", closed |-> TRUE],  \* 自动刷新Token场景
        [line |-> 30, title |-> "u5b89u5168u9632u62a4u573au666f", closed |-> TRUE],  \* 安全防护场景
        [line |-> 31, title |-> "u4f1au8bddu4fddu6301u573au666f", closed |-> TRUE],  \* 会话保持场景
        [line |-> 32, title |-> "u5f02u5e38u767bu51fau573au666f", closed |-> TRUE]  \* 异常登出场景
      >>,
      refresh |-> <<
        [line |-> 35, title |-> "Tokenu81eau52a8u5237u65b0u573au666f", closed |-> TRUE],  \* Token自动刷新场景
        [line |-> 36, title |-> "u65e0u611fu5237u65b0u573au666f", closed |-> TRUE],  \* 无感刷新场景
        [line |-> 37, title |-> "u957fu65f6u95f4u767bu5f55u573au666f", closed |-> TRUE],  \* 长时间登录场景
        [line |-> 38, title |-> "u5b89u5168u63a7u5236u573au666f", closed |-> TRUE],  \* 安全控制场景
        [line |-> 39, title |-> "u8bbeu5907u7ba1u7406u573au666f", closed |-> TRUE]  \* 设备管理场景
      >>,
      logout |-> <<
        [line |-> 42, title |-> "u4e3bu52a8u9000u51fau573au666f", closed |-> TRUE],  \* 主动退出场景
        [line |-> 43, title |-> "u6e05u7406u4f1au8bddu573au666f", closed |-> FALSE],  \* 清理会话场景
        [line |-> 44, title |-> "u591au8bbeu5907u7ba1u7406u573au666f", closed |-> TRUE],  \* 多设备管理场景
        [line |-> 45, title |-> "u5b89u5168u9632u62a4u573au666f", closed |-> TRUE],  \* 安全防护场景
        [line |-> 46, title |-> "u65e5u5fd7u8bb0u5f55u573au666f", closed |-> TRUE]  \* 日志记录场景
      >>
    ],
    lottery |-> [
      draw |-> <<
        [line |-> 51, title |-> "u7528u6237u53c2u4e0eu62bdu5956u573au666f", closed |-> TRUE],  \* 用户参与抽奖场景
        [line |-> 52, title |-> "u4e2du5956u7ed3u679cu751fu6210u573au666f", closed |-> TRUE],  \* 中奖结果生成场景
        [line |-> 53, title |-> "u5956u54c1u53d1u653eu573au666f", closed |-> TRUE],  \* 奖品发放场景
        [line |-> 54, title |-> "u79efu5206u6263u9664u573au666f", closed |-> TRUE],  \* 积分扣除场景
        [line |-> 55, title |-> "u9632u91cdu590du62bdu5956u573au666f", closed |-> FALSE]  \* 防重复抽奖场景
      >>,
      history |-> <<
        [line |-> 58, title |-> "u5386u53f2u8bb0u5f55u67e5u8be2u573au666f", closed |-> TRUE],  \* 历史记录查询场景
        [line |-> 59, title |-> "u4e2du5956u7edfu8ba1u573au666f", closed |-> TRUE],  \* 中奖统计场景
        [line |-> 60, title |-> "u5956u54c1u5206u7c7bu5c55u793au573au666f", closed |-> TRUE],  \* 奖品分类展示场景
        [line |-> 61, title |-> "u7ba1u7406u5458u5ba1u8ba1u573au666f", closed |-> TRUE],  \* 管理员审计场景
        [line |-> 62, title |-> "u6570u636eu5206u6790u573au666f", closed |-> TRUE]  \* 数据分析场景
      >>,
      config |-> <<
        [line |-> 65, title |-> "u6d3bu52a8u914du7f6eu67e5u8be2u573au666f", closed |-> TRUE],  \* 活动配置查询场景
        [line |-> 66, title |-> "u524du7aefu5c55u793au573au666f", closed |-> TRUE],  \* 前端展示场景
        [line |-> 67, title |-> "u79efu5206u6d88u8017u63d0u793au573au666f", closed |-> TRUE],  \* 积分消耗提示场景
        [line |-> 68, title |-> "u6d3bu52a8u65f6u95f4u5224u65adu573au666f", closed |-> TRUE],  \* 活动时间判断场景
        [line |-> 69, title |-> "u53c2u4e0eu6761u4ef6u9a8cu8bc1u573au666f", closed |-> FALSE]  \* 参与条件验证场景
      >>,
      prizes |-> <<
        [line |-> 72, title |-> "u5956u54c1u6c60u5c55u793au573au666f", closed |-> TRUE],  \* 奖品池展示场景
        [line |-> 73, title |-> "u6982u7387u900fu660eu573au666f", closed |-> TRUE],  \* 概率透明场景
        [line |-> 74, title |-> "u5e93u5b58u63d0u793au573au666f", closed |-> TRUE],  \* 库存提示场景
        [line |-> 75, title |-> "u5438u5f15u53c2u4e0eu573au666f", closed |-> TRUE],  \* 吸引参与场景
        [line |-> 76, title |-> "u516cu5e73u516cu6b63u573au666f", closed |-> TRUE]  \* 公平公正场景
      >>
    ],
    points |-> [
      balance |-> <<
        [line |-> 81, title |-> "u79efu5206u4f59u989du67e5u8be2u573au666f", closed |-> TRUE],  \* 积分余额查询场景
        [line |-> 82, title |-> "u6d88u8d39u524du786eu8ba4u573au666f", closed |-> TRUE],  \* 消费前确认场景
        [line |-> 83, title |-> "u79efu5206u53d8u52a8u63d0u9192u573au666f", closed |-> TRUE],  \* 积分变动提醒场景
        [line |-> 84, title |-> "u51bbu7ed3u79efu5206u5c55u793au573au666f", closed |-> TRUE],  \* 冻结积分展示场景
        [line |-> 85, title |-> "u5386u53f2u7d2fu8ba1u5c55u793au573au666f", closed |-> FALSE]  \* 历史累计展示场景
      >>,
      transactions |-> <<
        [line |-> 88, title |-> "u4ea4u6613u8bb0u5f55u67e5u8be2u573au666f", closed |-> TRUE],  \* 交易记录查询场景
        [line |-> 89, title |-> "u5bf9u8d26u6838u9a8cu573au666f", closed |-> TRUE],  \* 对账核验场景
        [line |-> 90, title |-> "u6d88u8d39u5206u6790u573au666f", closed |-> TRUE],  \* 消费分析场景
        [line |-> 91, title |-> "u5f02u5e38u68c0u6d4bu573au666f", closed |-> TRUE],  \* 异常检测场景
        [line |-> 92, title |-> "u6570u636eu5bfcu51fau573au666f", closed |-> FALSE]  \* 数据导出场景
      >>,
      adjust |-> <<
        [line |-> 95, title |-> "u79efu5206u8865u53d1u573au666f", closed |-> TRUE],  \* 积分补发场景
        [line |-> 96, title |-> "u79efu5206u6263u9664u573au666f", closed |-> TRUE],  \* 积分扣除场景
        [line |-> 97, title |-> "u6d3bu52a8u5956u52b1u573au666f", closed |-> TRUE],  \* 活动奖励场景
        [line |-> 98, title |-> "u6d4bu8bd5u8c03u6574u573au666f", closed |-> TRUE],  \* 测试调整场景
        [line |-> 99, title |-> "u5f02u5e38u5904u7406u573au666f", closed |-> TRUE]  \* 异常处理场景
      >>
    ],
    inventory |-> [
      list |-> <<
        [line |-> 104, title |-> "u5e93u5b58u67e5u770bu573au666f", closed |-> TRUE],  \* 库存查看场景
        [line |-> 105, title |-> "u7269u54c1u5206u7c7bu573au666f", closed |-> TRUE],  \* 物品分类场景
        [line |-> 106, title |-> "u7269u54c1u72b6u6001u573au666f", closed |-> TRUE],  \* 物品状态场景
        [line |-> 107, title |-> "u5febu901fu67e5u627eu573au666f", closed |-> TRUE],  \* 快速查找场景
        [line |-> 108, title |-> "u7ba1u7406u5e93u5b58u573au666f", closed |-> TRUE]  \* 管理库存场景
      >>,
      use |-> <<
        [line |-> 111, title |-> "u7269u54c1u4f7fu7528u573au666f", closed |-> TRUE],  \* 物品使用场景
        [line |-> 112, title |-> "u6838u9500u9a8cu8bc1u573au666f", closed |-> FALSE],  \* 核销验证场景
        [line |-> 113, title |-> "u72b6u6001u66f4u65b0u573au666f", closed |-> TRUE],  \* 状态更新场景
        [line |-> 114, title |-> "u8bb0u5f55u7559u5b58u573au666f", closed |-> FALSE],  \* 记录留存场景
        [line |-> 115, title |-> "u9632u91cdu590du4f7fu7528u573au666f", closed |-> TRUE]  \* 防重复使用场景
      >>,
      exchange |-> <<
        [line |-> 118, title |-> "u5546u54c1u5151u6362u573au666f", closed |-> TRUE],  \* 商品兑换场景
        [line |-> 119, title |-> "u5e93u5b58u68c0u67e5u573au666f", closed |-> TRUE],  \* 库存检查场景
        [line |-> 120, title |-> "u79efu5206u6263u9664u573au666f", closed |-> TRUE],  \* 积分扣除场景
        [line |-> 121, title |-> "u8ba2u5355u751fu6210u573au666f", closed |-> TRUE],  \* 订单生成场景
        [line |-> 122, title |-> "u7269u6d41u4fe1u606fu573au666f", closed |-> TRUE]  \* 物流信息场景
      >>,
      transfer |-> <<
        [line |-> 125, title |-> "u7269u54c1u8f6cu8ba9u573au666f", closed |-> FALSE],  \* 物品转让场景
        [line |-> 126, title |-> "u6743u9650u9a8cu8bc1u573au666f", closed |-> TRUE],  \* 权限验证场景
        [line |-> 127, title |-> "u63a5u6536u786eu8ba4u573au666f", closed |-> FALSE],  \* 接收确认场景
        [line |-> 128, title |-> "u8bb0u5f55u8ffdu6eafu573au666f", closed |-> FALSE],  \* 记录追溯场景
        [line |-> 129, title |-> "u9632u4f5cu5f0au573au666f", closed |-> FALSE]  \* 防作弊场景
      >>
    ],
    consumption |-> [
      submit |-> <<
        [line |-> 134, title |-> "u6d88u8d39u8bb0u5f55u63d0u4ea4u573au666f", closed |-> TRUE],  \* 消费记录提交场景
        [line |-> 135, title |-> "QRu7801u9a8cu8bc1u573au666f", closed |-> TRUE],  \* QR码验证场景
        [line |-> 136, title |-> "u6d88u8d39u51edu8bc1u573au666f", closed |-> FALSE],  \* 消费凭证场景
        [line |-> 137, title |-> "u5f85u5ba1u6838u72b6u6001u573au666f", closed |-> TRUE],  \* 待审核状态场景
        [line |-> 138, title |-> "u901au77e5u7528u6237u573au666f", closed |-> TRUE]  \* 通知用户场景
      >>,
      approve |-> <<
        [line |-> 141, title |-> "u5ba1u6838u901au8fc7u573au666f", closed |-> TRUE],  \* 审核通过场景
        [line |-> 142, title |-> "u79efu5206u53d1u653eu573au666f", closed |-> TRUE],  \* 积分发放场景
        [line |-> 143, title |-> "u72b6u6001u66f4u65b0u573au666f", closed |-> FALSE],  \* 状态更新场景
        [line |-> 144, title |-> "u901au77e5u7528u6237u573au666f", closed |-> FALSE],  \* 通知用户场景
        [line |-> 145, title |-> "u8bb0u5f55u5ba1u6838u65e5u5fd7u573au666f", closed |-> FALSE]  \* 记录审核日志场景
      >>,
      reject |-> <<
        [line |-> 148, title |-> "u5ba1u6838u62d2u7eddu573au666f", closed |-> TRUE],  \* 审核拒绝场景
        [line |-> 149, title |-> "u62d2u7eddu539fu56e0u573au666f", closed |-> FALSE],  \* 拒绝原因场景
        [line |-> 150, title |-> "u72b6u6001u66f4u65b0u573au666f", closed |-> FALSE],  \* 状态更新场景
        [line |-> 151, title |-> "u7528u6237u7533u8bc9u573au666f", closed |-> FALSE],  \* 用户申诉场景
        [line |-> 152, title |-> "u9632u4f5cu5f0au573au666f", closed |-> FALSE]  \* 防作弊场景
      >>
    ],
    admin |-> [
      dashboard |-> <<
        [line |-> 157, title |-> "u6570u636eu603bu89c8u573au666f", closed |-> TRUE],  \* 数据总览场景
        [line |-> 158, title |-> "u5b9eu65f6u76d1u63a7u573au666f", closed |-> TRUE],  \* 实时监控场景
        [line |-> 159, title |-> "u8d8bu52bfu5206u6790u573au666f", closed |-> TRUE],  \* 趋势分析场景
        [line |-> 160, title |-> "u5f02u5e38u544au8b66u573au666f", closed |-> FALSE],  \* 异常告警场景
        [line |-> 161, title |-> "u51b3u7b56u652fu6301u573au666f", closed |-> FALSE]  \* 决策支持场景
      >>,
      users |-> <<
        [line |-> 164, title |-> "u7528u6237u7ba1u7406u573au666f", closed |-> TRUE],  \* 用户管理场景
        [line |-> 165, title |-> "u89d2u8272u5206u914du573au666f", closed |-> TRUE],  \* 角色分配场景
        [line |-> 166, title |-> "u8d26u6237u72b6u6001u573au666f", closed |-> FALSE],  \* 账户状态场景
        [line |-> 167, title |-> "u7528u6237u641cu7d22u573au666f", closed |-> TRUE],  \* 用户搜索场景
        [line |-> 168, title |-> "u6279u91cfu64cdu4f5cu573au666f", closed |-> FALSE]  \* 批量操作场景
      >>,
      config |-> <<
        [line |-> 171, title |-> "u7cfbu7edfu914du7f6eu573au666f", closed |-> TRUE],  \* 系统配置场景
        [line |-> 172, title |-> "u53c2u6570u8c03u6574u573au666f", closed |-> FALSE],  \* 参数调整场景
        [line |-> 173, title |-> "u52a8u6001u751fu6548u573au666f", closed |-> FALSE],  \* 动态生效场景
        [line |-> 174, title |-> "u914du7f6eu5907u4efdu573au666f", closed |-> FALSE],  \* 配置备份场景
        [line |-> 175, title |-> "u6743u9650u63a7u5236u573au666f", closed |-> FALSE]  \* 权限控制场景
      >>
    ]
  ]

BUSINESS_RULES ==
  [
    auth |-> [
      login |-> <<
        [line |-> 184, title |-> "u624bu673au53f7u683cu5f0fu9a8cu8bc1u89c4u5219", closed |-> TRUE],  \* 手机号格式验证规则
        [line |-> 185, title |-> "u9a8cu8bc1u7801u9a8cu8bc1u89c4u5219", closed |-> TRUE],  \* 验证码验证规则
        [line |-> 186, title |-> "u65b0u7528u6237u81eau52a8u6ce8u518cu89c4u5219", closed |-> TRUE],  \* 新用户自动注册规则
        [line |-> 187, title |-> "Tokenu751fu6210u89c4u5219", closed |-> TRUE],  \* Token生成规则
        [line |-> 188, title |-> "u5e76u53d1u767bu5f55u63a7u5236u89c4u5219", closed |-> TRUE],  \* 并发登录控制规则
        [line |-> 189, title |-> "u767bu5f55u65e5u5fd7u8bb0u5f55u89c4u5219", closed |-> TRUE]  \* 登录日志记录规则
      >>,
      common |-> <<
        [line |-> 192, title |-> "u6743u9650u9a8cu8bc1u89c4u5219", closed |-> TRUE],  \* 权限验证规则
        [line |-> 193, title |-> "Tokenu9a8cu8bc1u89c4u5219", closed |-> TRUE],  \* Token验证规则
        [line |-> 194, title |-> "u53c2u6570u6821u9a8cu89c4u5219", closed |-> TRUE],  \* 参数校验规则
        [line |-> 195, title |-> "u6570u636eu4e00u81f4u6027u89c4u5219", closed |-> TRUE],  \* 数据一致性规则
        [line |-> 196, title |-> "u9519u8befu5904u7406u89c4u5219", closed |-> TRUE],  \* 错误处理规则
        [line |-> 197, title |-> "u65e5u5fd7u8bb0u5f55u89c4u5219", closed |-> FALSE]  \* 日志记录规则
      >>
    ],
    lottery |-> [
      draw |-> <<
        [line |-> 202, title |-> "u79efu5206u5145u8db3u9a8cu8bc1u89c4u5219", closed |-> TRUE],  \* 积分充足验证规则
        [line |-> 203, title |-> "u6d3bu52a8u6709u6548u6027u89c4u5219", closed |-> TRUE],  \* 活动有效性规则
        [line |-> 204, title |-> "u5e42u7b49u6027u63a7u5236u89c4u5219", closed |-> TRUE],  \* 幂等性控制规则
        [line |-> 205, title |-> "u6982u7387u8ba1u7b97u89c4u5219", closed |-> TRUE],  \* 概率计算规则
        [line |-> 206, title |-> "u5e93u5b58u6263u51cfu89c4u5219", closed |-> FALSE],  \* 库存扣减规则
        [line |-> 207, title |-> "u4e8bu52a1u4e00u81f4u6027u89c4u5219", closed |-> TRUE]  \* 事务一致性规则
      >>,
      common |-> <<
        [line |-> 210, title |-> "u6d3bu52a8u6743u9650u89c4u5219", closed |-> TRUE],  \* 活动权限规则
        [line |-> 211, title |-> "u6570u636eu5b8cu6574u6027u89c4u5219", closed |-> TRUE],  \* 数据完整性规则
        [line |-> 212, title |-> "u5206u9875u67e5u8be2u89c4u5219", closed |-> TRUE],  \* 分页查询规则
        [line |-> 213, title |-> "u65f6u95f4u8303u56f4u89c4u5219", closed |-> TRUE],  \* 时间范围规则
        [line |-> 214, title |-> "u8f6fu5220u9664u89c4u5219", closed |-> TRUE],  \* 软删除规则
        [line |-> 215, title |-> "u7f13u5b58u7b56u7565u89c4u5219", closed |-> TRUE]  \* 缓存策略规则
      >>
    ],
    points |-> [
      common |-> <<
        [line |-> 220, title |-> "u6743u9650u9a8cu8bc1u89c4u5219", closed |-> TRUE],  \* 权限验证规则
        [line |-> 221, title |-> "u79efu5206u8ba1u7b97u89c4u5219", closed |-> FALSE],  \* 积分计算规则
        [line |-> 222, title |-> "u4e8bu52a1u5b89u5168u89c4u5219", closed |-> TRUE],  \* 事务安全规则
        [line |-> 223, title |-> "u5e42u7b49u6027u89c4u5219", closed |-> FALSE],  \* 幂等性规则
        [line |-> 224, title |-> "u5386u53f2u8bb0u5f55u89c4u5219", closed |-> TRUE],  \* 历史记录规则
        [line |-> 225, title |-> "u8f6fu5220u9664u89c4u5219", closed |-> TRUE]  \* 软删除规则
      >>
    ],
    inventory |-> [
      common |-> <<
        [line |-> 230, title |-> "u6743u9650u9a8cu8bc1u89c4u5219", closed |-> TRUE],  \* 权限验证规则
        [line |-> 231, title |-> "u7269u54c1u72b6u6001u89c4u5219", closed |-> TRUE],  \* 物品状态规则
        [line |-> 232, title |-> "u5e93u5b58u6263u51cfu89c4u5219", closed |-> TRUE],  \* 库存扣减规则
        [line |-> 233, title |-> "u4e8bu52a1u4e00u81f4u6027u89c4u5219", closed |-> TRUE],  \* 事务一致性规则
        [line |-> 234, title |-> "u6838u9500u7801u552fu4e00u6027u89c4u5219", closed |-> TRUE],  \* 核销码唯一性规则
        [line |-> 235, title |-> "u65f6u6548u6027u89c4u5219", closed |-> FALSE]  \* 时效性规则
      >>
    ],
    consumption |-> [
      common |-> <<
        [line |-> 240, title |-> "u89d2u8272u6743u9650u89c4u5219", closed |-> TRUE],  \* 角色权限规则
        [line |-> 241, title |-> "QRu7801u9a8cu8bc1u89c4u5219", closed |-> FALSE],  \* QR码验证规则
        [line |-> 242, title |-> "u91d1u989du9a8cu8bc1u89c4u5219", closed |-> TRUE],  \* 金额验证规则
        [line |-> 243, title |-> "u5ba1u6838u65f6u6548u89c4u5219", closed |-> TRUE],  \* 审核时效规则
        [line |-> 244, title |-> "u79efu5206u53d1u653eu89c4u5219", closed |-> FALSE],  \* 积分发放规则
        [line |-> 245, title |-> "u9632u91cdu590du63d0u4ea4u89c4u5219", closed |-> FALSE]  \* 防重复提交规则
      >>
    ],
    admin |-> [
      common |-> <<
        [line |-> 250, title |-> "u7ba1u7406u5458u6743u9650u89c4u5219", closed |-> TRUE],  \* 管理员权限规则
        [line |-> 251, title |-> "u64cdu4f5cu65e5u5fd7u89c4u5219", closed |-> TRUE],  \* 操作日志规则
        [line |-> 252, title |-> "u654fu611fu64cdu4f5cu786eu8ba4u89c4u5219", closed |-> FALSE],  \* 敏感操作确认规则
        [line |-> 253, title |-> "u6279u91cfu64cdu4f5cu9650u5236u89c4u5219", closed |-> TRUE],  \* 批量操作限制规则
        [line |-> 254, title |-> "u6570u636eu5bfcu51fau89c4u5219", closed |-> FALSE],  \* 数据导出规则
        [line |-> 255, title |-> "u6743u9650u5206u7ea7u89c4u5219", closed |-> TRUE]  \* 权限分级规则
      >>
    ]
  ]

\* The lists built in the else branches of get_scenarios and get_rules.

DefaultScenarios ==
  <<
    [line |-> 289, title |-> "u529fu80fdu4f7fu7528u573au666f", closed |-> TRUE],  \* 功能使用场景
    [line |-> 290, title |-> "u6570u636eu67e5u8be2u573au666f", closed |-> TRUE],  \* 数据查询场景
    [line |-> 291, title |-> "u6743u9650u9a8cu8bc1u573au666f", closed |-> TRUE],  \* 权限验证场景
    [line |-> 292, title |-> "u6570u636eu5904u7406u573au666f", closed |-> TRUE],  \* 数据处理场景
    [line |-> 293, title |-> "u65e5u5fd7u8bb0u5f55u573au666f", closed |-> TRUE]  \* 日志记录场景
  >>

DefaultRules ==
  <<
    [line |-> 305, title |-> "u6743u9650u9a8cu8bc1u89c4u5219", closed |-> TRUE],  \* 权限验证规则
    [line |-> 306, title |-> "u53c2u6570u6821u9a8cu89c4u5219", closed |-> TRUE],  \* 参数校验规则
    [line |-> 307, title |-> "u6570u636eu4e00u81f4u6027u89c4u5219", closed |-> TRUE],  \* 数据一致性规则
    [line |-> 308, title |-> "u9519u8befu5904u7406u89c4u5219", closed |-> TRUE],  \* 错误处理规则
    [line |-> 309, title |-> "u65e5u5fd7u8bb0u5f55u89c4u5219", closed |-> TRUE],  \* 日志记录规则
    [line |-> 310, title |-> "u6027u80fdu4f18u5316u89c4u5219", closed |-> TRUE]  \* 性能优化规则
  >>

\* str.lower() on one character: an upper-case ASCII letter maps to its
\* lower-case letter, every other character of the alphabet used here (ASCII
\* lower-case, digits, punctuation, CJK) is unchanged.
LowerChar(c) ==
  CASE c = "A" -> "a" [] c = "B" -> "b" [] c = "C" -> "c" [] c = "D" -> "d"
    [] c = "E" -> "e" [] c = "F" -> "f" [] c = "G" -> "g" [] c = "H" -> "h"
    [] c = "I" -> "i" [] c = "J" -> "j" [] c = "K" -> "k" [] c = "L" -> "l"
    [] c = "M" -> "m" [] c = "N" -> "n" [] c = "O" -> "o" [] c = "P" -> "p"
    [] c = "Q" -> "q" [] c = "R" -> "r" [] c = "S" -> "s" [] c = "T" -> "t"
    [] c = "U" -> "u" [] c = "V" -> "v" [] c = "W" -> "w" [] c = "X" -> "x"
    [] c = "Y" -> "y" [] c = "Z" -> "z" [] OTHER -> c

\* s.lower()
lower(s) == [i \in 1..Len(s) |-> LowerChar(s[i])]

\* k in s (substring test of two strings)
Contains(s, k) ==
  \E i \in 1..(Len(s) - Len(k) + 1) : \A j \in 1..Len(k) : s[i + j - 1] = k[j]

\* get_api_category with the points test moved in front of the auth test.
get_api_category_points_first(p, d) ==
  LET path_lower == lower(p)
      desc_lower == lower(d)
  IN  IF Contains(path_lower, mk_points) \/ Contains(desc_lower, zh_jifen)
      THEN "points"
      ELSE IF Contains(path_lower, mk_auth) \/ Contains(desc_lower, kw_login)
              \/ Contains(desc_lower, kw_token)
      THEN "auth"
      ELSE IF Contains(path_lower, mk_lottery) \/ Contains(desc_lower, zh_choujiang)
      THEN "lottery"
      ELSE IF Contains(path_lower, mk_inventory) \/ Contains(desc_lower, zh_kucun)
              \/ Contains(desc_lower, zh_duihuan)
      THEN "inventory"
      ELSE IF Contains(path_lower, mk_consumption) \/ Contains(desc_lower, zh_xiaofei)
      THEN "consumption"
      ELSE IF Contains(path_lower, mk_admin) \/ Contains(desc_lower, zh_guanli)
      THEN "admin"
      ELSE "common"

get_api_category(p, d) ==
  LET path_lower == lower(p)
      desc_lower == lower(d)
  IN  IF Contains(path_lower, mk_auth) \/ Contains(desc_lower, kw_login)
         \/ Contains(desc_lower, kw_token)
      THEN "auth"
      ELSE IF Contains(path_lower, mk_lottery) \/ Contains(desc_lower, zh_choujiang)
      THEN "lottery"
      ELSE IF Contains(path_lower, mk_points) \/ Contains(desc_lower, zh_jifen)
      THEN "points"
      ELSE IF Contains(path_lower, mk_inventory) \/ Contains(desc_lower, zh_kucun)
              \/ Contains(desc_lower, zh_duihuan)
      THEN "inventory"
      ELSE IF Contains(path_lower, mk_consumption) \/ Contains(desc_lower, zh_xiaofei)
      THEN "consumption"
      ELSE IF Contains(path_lower, mk_admin) \/ Contains(desc_lower, zh_guanli)
      THEN "admin"
      ELSE "common"

\* The if/elif chain of generate_api_content (lines 318-358); path and
\* description are used as given.
classify_type(p, d) ==
  IF Contains(p, kw_login) \/ Contains(d, zh_denglu) THEN "login"
  ELSE IF Contains(p, kw_profile) \/ Contains(d, zh_yonghuxinxi) THEN "profile"
  ELSE IF Contains(p, kw_verify) \/ Contains(d, zh_yanzheng) THEN "verify"
  ELSE IF Contains(p, kw_refresh) \/ Contains(d, zh_shuaxin) THEN "refresh"
  ELSE IF Contains(p, kw_logout) \/ Contains(d, zh_tuichu) THEN "logout"
  ELSE IF Contains(p, kw_draw) \/ Contains(d, zh_zhixingchoujiang) THEN "draw"
  ELSE IF Contains(p, kw_history) \/ Contains(d, zh_lishi) THEN "history"
  ELSE IF Contains(p, kw_config) \/ Contains(d, zh_peizhi) THEN "config"
  ELSE IF Contains(p, kw_prizes) \/ Contains(d, zh_jiangpin) THEN "prizes"
  ELSE IF Contains(p, kw_balance) \/ Contains(d, zh_yue) THEN "balance"
  ELSE IF Contains(p, kw_transactions) \/ Contains(d, zh_jiaoyi) THEN "transactions"
  ELSE IF Contains(p, kw_adjust) \/ Contains(d, zh_tiaozheng) THEN "adjust"
  ELSE IF Contains(p, kw_use) \/ Contains(d, zh_shiyong) THEN "use"
  ELSE IF Contains(p, kw_exchange) \/ Contains(d, zh_duihuan) THEN "exchange"
  ELSE IF Contains(p, kw_transfer) \/ Contains(d, zh_zhuanrang) THEN "transfer"
  ELSE IF Contains(p, kw_submit) \/ Contains(d, zh_tijiao) THEN "submit"
  ELSE IF Contains(p, kw_approve) \/ Contains(d, zh_tongguo) THEN "approve"
  ELSE IF Contains(p, kw_reject) \/ Contains(d, zh_jujue) THEN "reject"
  ELSE IF Contains(p, kw_dashboard) \/ Contains(d, zh_yibiaopan) THEN "dashboard"
  ELSE IF Contains(p, kw_users) \/ Contains(d, zh_yonghuguanli) THEN "users"
  ELSE "common"

\* get_scenarios returning an empty list where the source builds its default.
get_scenarios_empty_default(c, t) ==
  IF c \in DOMAIN API_SCENARIOS /\ t \in DOMAIN API_SCENARIOS[c]
  THEN API_SCENARIOS[c][t]
  ELSE IF c \in DOMAIN API_SCENARIOS /\ "common" \in DOMAIN API_SCENARIOS[c]
  THEN API_SCENARIOS[c]["common"]
  ELSE <<>>

get_scenarios(c, t) ==
  IF c \in DOMAIN API_SCENARIOS /\ t \in DOMAIN API_SCENARIOS[c]
  THEN API_SCENARIOS[c][t]
  ELSE IF c \in DOMAIN API_SCENARIOS /\ "common" \in DOMAIN API_SCENARIOS[c]
  THEN API_SCENARIOS[c]["common"]
  ELSE DefaultScenarios

\* get_rules falling back to the 'auth' category's 'common' rules where the
\* source builds its default list.
get_rules_auth_fallback(c, t) ==
  IF c \in DOMAIN BUSINESS_RULES /\ t \in DOMAIN BUSINESS_RULES[c]
  THEN BUSINESS_RULES[c][t]
  ELSE IF c \in DOMAIN BUSINESS_RULES /\ "common" \in DOMAIN BUSINESS_RULES[c]
  THEN BUSINESS_RULES[c]["common"]
  ELSE BUSINESS_RULES["auth"]["common"]

\* get_rules without its first branch: the type key is never looked up.
get_rules_ignores_type(c, t) ==
  IF c \in DOMAIN BUSINESS_RULES /\ "common" \in DOMAIN BUSINESS_RULES[c]
  THEN BUSINESS_RULES[c]["common"]
  ELSE DefaultRules

get_rules(c, t) ==
  IF c \in DOMAIN BUSINESS_RULES /\ t \in DOMAIN BUSINESS_RULES[c]
  THEN BUSINESS_RULES[c][t]
  ELSE IF c \in DOMAIN BUSINESS_RULES /\ "common" \in DOMAIN BUSINESS_RULES[c]
  THEN BUSINESS_RULES[c]["common"]
  ELSE DefaultRules

\* ---------------------------------------------------------------------------
\* generate_api_content as a function of its two arguments. It returns the pair
\* (scenarios, rules); the two keys it computes on the way are kept in the
\* record so that they can be observed.


\* generate_api_content with the type key resolved once, against BUSINESS_RULES,
\* and then used for both lookups.
generate_api_content_coupled(p, d) ==
  LET c == get_api_category(p, d)
      t == classify_type(p, d)
      k == IF c \in DOMAIN BUSINESS_RULES /\ t \in DOMAIN BUSINESS_RULES[c]
           THEN t ELSE "common"
  IN  [category |-> c, api_type |-> t,
       scenarios |-> get_scenarios(c, k), rules |-> get_rules(c, k)]

\* generate_api_content running its type tests on the lower-cased path, as
\* get_api_category does.
generate_api_content_lowered(p, d) ==
  LET c == get_api_category(p, d)
      t == classify_type(lower(p), d)
  IN  [category |-> c, api_type |-> t,
       scenarios |-> get_scenarios(c, t), rules |-> get_rules(c, t)]

\* generate_api_content with the 'users' test moved in front of the 'use' test.
generate_api_content_users_first(p, d) ==
  LET c == get_api_category(p, d)
      t0 == classify_type(p, d)
      t == IF t0 \in {"use", "exchange", "transfer", "submit", "approve", "reject",
                      "dashboard"}
              /\ (Contains(p, kw_users) \/ Contains(d, zh_yonghuguanli))
           THEN "users" ELSE t0
  IN  [category |-> c, api_type |-> t,
       scenarios |-> get_scenarios(c, t), rules |-> get_rules(c, t)]

\* generate_api_content with a test for the key 'list' in front of its chain.
generate_api_content_with_list(p, d) ==
  LET c == get_api_category(p, d)
      t == IF Contains(p, <<"l", "i", "s", "t">>) THEN "list" ELSE classify_type(p, d)
  IN  [category |-> c, api_type |-> t,
       scenarios |-> get_scenarios(c, t), rules |-> get_rules(c, t)]

generate_api_content(p, d) ==
  LET c == get_api_category(p, d)
      t == classify_type(p, d)
  IN  [category |-> c, api_type |-> t,
       scenarios |-> get_scenarios(c, t), rules |-> get_rules(c, t)]

\* ---------------------------------------------------------------------------
\* The inputs. A path is a concatenation of distinct path fragments, a
\* description a concatenation of distinct description fragments, each taken in
\* the order of its pool, at most MaxFrags fragments in the two together; the
\* inputs named by the source's demonstration and by the specification's
\* examples are added as they are written.

MaxFrags == 2

PathFrags ==
  << mk_auth, mk_lottery, mk_points, mk_inventory, mk_consumption, mk_admin,
    kw_login, kw_profile, kw_verify, kw_refresh, kw_logout, kw_draw,
    kw_history, kw_config, kw_prizes, kw_balance, kw_transactions, kw_adjust,
    kw_use, kw_exchange, kw_transfer, kw_submit, kw_approve, kw_reject,
    kw_dashboard, kw_users,
    \* '/AUTH/', 'LOGIN', 'list', '/api/v4', 'unknown'
    <<"/", "A", "U", "T", "H", "/">>, <<"L", "O", "G", "I", "N">>, <<"l", "i", "s", "t">>,
    <<"/", "a", "p", "i", "/", "v", "4">>, <<"u", "n", "k", "n", "o", "w", "n">> >>

DescFrags ==
  << kw_login, kw_token, zh_choujiang, zh_jifen, zh_kucun, zh_xiaofei, zh_guanli,
    zh_denglu, zh_yonghuxinxi, zh_yanzheng, zh_shuaxin, zh_tuichu,
    zh_zhixingchoujiang, zh_lishi, zh_peizhi, zh_jiangpin, zh_yue, zh_jiaoyi,
    zh_tiaozheng, zh_shiyong, zh_duihuan, zh_zhuanrang, zh_tijiao, zh_tongguo,
    zh_jujue, zh_yibiaopan, zh_yonghuguanli,
    \* 'Token', 'LOGIN', '未知'
    <<"T", "o", "k", "e", "n">>, <<"L", "O", "G", "I", "N">>, <<"u672a", "u77e5">> >>

\* The concatenations of n fragments pool[k1], ..., pool[kn], from <= k1 < ... < kn.
RECURSIVE Concats(_, _, _)
Concats(pool, n, from) ==
  IF n = 0 THEN { <<>> }
  ELSE UNION { { pool[k] \o s : s \in Concats(pool, n - 1, k + 1) } : k \in from..Len(pool) }

\* test_apis of the demonstration (lines 368-372)
\*   ('POST /api/v4/auth/login', '用户登录'), ('GET /api/v4/lottery/draw', '执行抽奖'),
\*   ('GET /api/v4/points/balance', '查询积分余额')
test_apis ==
  << << <<"P", "O", "S", "T", " ", "/", "a", "p", "i", "/", "v", "4", "/", "a", "u", "t", "h", "/", "l", "o", "g", "i", "n">>, <<"u7528", "u6237", "u767b", "u5f55">> >>,
     << <<"G", "E", "T", " ", "/", "a", "p", "i", "/", "v", "4", "/", "l", "o", "t", "t", "e", "r", "y", "/", "d", "r", "a", "w">>, <<"u6267", "u884c", "u62bd", "u5956">> >>,
     << <<"G", "E", "T", " ", "/", "a", "p", "i", "/", "v", "4", "/", "p", "o", "i", "n", "t", "s", "/", "b", "a", "l", "a", "n", "c", "e">>, <<"u67e5", "u8be2", "u79ef", "u5206", "u4f59", "u989d">> >> >>

\* Inputs the specification names:
\*   ('/api/v4/auth/login', '积分查询'), ('/api/v4/auth/unknownsuffix', '未知'),
\*   ('/api/v4/unknown/thing', '无关描述'), ('/API/V4/AUTH/LOGIN', ''),
\*   ('GET /api/v4/admin/users', '')
ex_priority ==
  << <<"/", "a", "p", "i", "/", "v", "4", "/", "a", "u", "t", "h", "/", "l", "o", "g", "i", "n">>,
     <<"u79ef", "u5206", "u67e5", "u8be2">> >>
ex_fallback ==
  << <<"/", "a", "p", "i", "/", "v", "4", "/", "a", "u", "t", "h", "/", "u", "n", "k", "n", "o", "w", "n", "s", "u", "f", "f", "i", "x">>,
     <<"u672a", "u77e5">> >>
ex_unknown ==
  << <<"/", "a", "p", "i", "/", "v", "4", "/", "u", "n", "k", "n", "o", "w", "n", "/", "t", "h", "i", "n", "g">>,
     <<"u65e0", "u5173", "u63cf", "u8ff0">> >>
ex_upper ==
  << <<"/", "A", "P", "I", "/", "V", "4", "/", "A", "U", "T", "H", "/", "L", "O", "G", "I", "N">>,
     <<>> >>
ex_admin_users ==
  << <<"G", "E", "T", " ", "/", "a", "p", "i", "/", "v", "4", "/", "a", "d", "m", "i", "n", "/", "u", "s", "e", "r", "s">>,
     <<>> >>

ExampleInputs ==
  { test_apis[i] : i \in 1..Len(test_apis) } \cup
  { ex_priority, ex_fallback, ex_unknown, ex_upper, ex_admin_users }

Inputs ==
  UNION { Concats(PathFrags, i, 1) \X Concats(DescFrags, j, 1) :
            <<i, j>> \in { ij \in (0..MaxFrags) \X (0..MaxFrags) : ij[1] + ij[2] <= MaxFrags } }
  \cup ExampleInputs

\* ---------------------------------------------------------------------------
\* The state machine: one call of generate_api_content on an input.

NoList == <<>>

Init ==
  /\ \E inp \in Inputs : path = inp[1] /\ description = inp[2]
  /\ pc = "start"
  /\ category = "none"
  /\ api_type = "none"
  /\ scenarios = NoList
  /\ rules = NoList

\* The call: generate_api_content(path, description) runs to its return.
Resolve ==
  /\ pc = "start"
  /\ \E r \in { generate_api_content(path, description) } :
         /\ category' = r.category
         /\ api_type' = r.api_type
         /\ scenarios' = r.scenarios
         /\ rules' = r.rules
  /\ pc' = "done"
  /\ UNCHANGED <<path, description>>

Next == Resolve

Spec == Init /\ [][Next]_vars

\* ---------------------------------------------------------------------------
\* The claims.

\* The call on input inp has returned.
Returned(inp) == pc = "done" /\ path = inp[1] /\ description = inp[2]

\* The key of the first test of an ordered list of <<key, outcome>> pairs whose
\* outcome is TRUE, and none when there is no such test.
FirstMatch(tests, none) ==
  LET hits == { i \in DOMAIN tests : tests[i][2] }
  IN  IF hits = {} THEN none
      ELSE tests[CHOOSE i \in hits : \A j \in hits : i <= j][1]

\* No test of the list has the outcome TRUE.
NoMatch(tests) == \A i \in DOMAIN tests : ~tests[i][2]

\* The six category predicates in their order, on the case-folded inputs.
CategoryTests(p, d) ==
  LET pl == lower(p)
      dl == lower(d)
  IN  << <<"auth", Contains(pl, mk_auth) \/ Contains(dl, kw_login) \/ Contains(dl, kw_token)>>,
         <<"lottery", Contains(pl, mk_lottery) \/ Contains(dl, zh_choujiang)>>,
         <<"points", Contains(pl, mk_points) \/ Contains(dl, zh_jifen)>>,
         <<"inventory", Contains(pl, mk_inventory) \/ Contains(dl, zh_kucun)
                        \/ Contains(dl, zh_duihuan)>>,
         <<"consumption", Contains(pl, mk_consumption) \/ Contains(dl, zh_xiaofei)>>,
         <<"admin", Contains(pl, mk_admin) \/ Contains(dl, zh_guanli)>> >>

\* The twenty type tests in their order, on the inputs as given.
TypeTests(p, d) ==
  << <<"login", Contains(p, kw_login) \/ Contains(d, zh_denglu)>>,
     <<"profile", Contains(p, kw_profile) \/ Contains(d, zh_yonghuxinxi)>>,
     <<"verify", Contains(p, kw_verify) \/ Contains(d, zh_yanzheng)>>,
     <<"refresh", Contains(p, kw_refresh) \/ Contains(d, zh_shuaxin)>>,
     <<"logout", Contains(p, kw_logout) \/ Contains(d, zh_tuichu)>>,
     <<"draw", Contains(p, kw_draw) \/ Contains(d, zh_zhixingchoujiang)>>,
     <<"history", Contains(p, kw_history) \/ Contains(d, zh_lishi)>>,
     <<"config", Contains(p, kw_config) \/ Contains(d, zh_peizhi)>>,
     <<"prizes", Contains(p, kw_prizes) \/ Contains(d, zh_jiangpin)>>,
     <<"balance", Contains(p, kw_balance) \/ Contains(d, zh_yue)>>,
     <<"transactions", Contains(p, kw_transactions) \/ Contains(d, zh_jiaoyi)>>,
     <<"adjust", Contains(p, kw_adjust) \/ Contains(d, zh_tiaozheng)>>,
     <<"use", Contains(p, kw_use) \/ Contains(d, zh_shiyong)>>,
     <<"exchange", Contains(p, kw_exchange) \/ Contains(d, zh_duihuan)>>,
     <<"transfer", Contains(p, kw_transfer) \/ Contains(d, zh_zhuanrang)>>,
     <<"submit", Contains(p, kw_submit) \/ Contains(d, zh_tijiao)>>,
     <<"approve", Contains(p, kw_approve) \/ Contains(d, zh_tongguo)>>,
     <<"reject", Contains(p, kw_reject) \/ Contains(d, zh_jujue)>>,
     <<"dashboard", Contains(p, kw_dashboard) \/ Contains(d, zh_yibiaopan)>>,
     <<"users", Contains(p, kw_users) \/ Contains(d, zh_yonghuguanli)>> >>

TableCategories == {"auth", "lottery", "points", "inventory", "consumption", "admin"}

\* Every list stored in the two tables and both default lists have the lengths
\* a scenario list and a rule list are to have.
TableLengths ==
  /\ \A c \in DOMAIN API_SCENARIOS : \A t \in DOMAIN API_SCENARIOS[c] :
       Len(API_SCENARIOS[c][t]) = 5
  /\ \A c \in DOMAIN BUSINESS_RULES : \A t \in DOMAIN BUSINESS_RULES[c] :
       Len(BUSINESS_RULES[c][t]) \in {5, 6}
  /\ Len(DefaultScenarios) = 5
  /\ Len(DefaultRules) \in {5, 6}

C2_CategoryPriority ==
  pc = "done" =>
    LET tests == CategoryTests(path, description)
    IN  /\ category = FirstMatch(tests, "common")
        /\ tests[1][2] => category = "auth"
        /\ Returned(ex_priority) => category = "auth"

\* '/api/v4/auth/login' with '积分查询' satisfies the auth and the points predicate
\* and has been classified.
C2_Witness ==
  /\ Returned(ex_priority)
  /\ LET tests == CategoryTests(path, description)
     IN  tests[1][2] /\ tests[3][2]
  /\ category = "auth"

\* C3 (type fallback): with one of the six table categories and no type test
\* matching, the call returns that category's 'common' ScenarioSet and its
\* 'common' RuleSet; '/api/v4/auth/unknownsuffix' with '未知' gets auth.common
\* scenarios, not the default scenario list, and the 6 auth.common rules.
C3_TypeFallback ==
  /\ (pc = "done" /\ category \in TableCategories /\ api_type = "common") =>
       /\ "common" \in DOMAIN API_SCENARIOS[category]
       /\ scenarios = API_SCENARIOS[category]["common"]
       /\ "common" \in DOMAIN BUSINESS_RULES[category]
       /\ rules = BUSINESS_RULES[category]["common"]
  /\ Returned(ex_fallback) =>
       /\ category = "auth" /\ api_type = "common"
       /\ scenarios # DefaultScenarios
       /\ rules = BUSINESS_RULES["auth"]["common"] /\ Len(rules) = 6

\* C4 (table invariant): every category of API_SCENARIOS and every category of
\* BUSINESS_RULES has a 'common' entry, so a call gets a default list from a
\* lookup only when its category is absent from that lookup's table.
C4_TableInvariant ==
  pc = "done" =>
    /\ \A c \in DOMAIN BUSINESS_RULES : "common" \in DOMAIN BUSINESS_RULES[c]
    /\ rules = DefaultRules => category \notin DOMAIN BUSINESS_RULES
    /\ \A c \in DOMAIN API_SCENARIOS : "common" \in DOMAIN API_SCENARIOS[c]
    /\ scenarios = DefaultScenarios => category \notin DOMAIN API_SCENARIOS

\* C5 (unknown category): an input satisfying none of the six category
\* predicates gets, whatever its type key, the default 5-entry scenario list
\* starting '**功能使用场景**' and the default 6-entry rule list starting
\* '**权限验证规则**'; so does '/api/v4/unknown/thing' with '无关描述'.
C5_UnknownCategory ==
  LET generic ==
        /\ scenarios = DefaultScenarios /\ Len(scenarios) = 5
        /\ scenarios[1].title = "u529fu80fdu4f7fu7528u573au666f" /\ scenarios[1].closed
        /\ rules = DefaultRules /\ Len(rules) = 6
        /\ rules[1].title = "u6743u9650u9a8cu8bc1u89c4u5219" /\ rules[1].closed
  IN  /\ (pc = "done" /\ NoMatch(CategoryTests(path, description))) =>
           category = "common" /\ generic
      /\ Returned(ex_unknown) => category = "common" /\ generic

\* An input of no category whose type key is not 'common' has been resolved.
C5_Witness ==
  /\ pc = "done"
  /\ api_type = "draw"
  /\ NoMatch(CategoryTests(path, description))
  /\ scenarios = DefaultScenarios

\* C6 (specific match): an input classified (auth, login) or (lottery, draw)
\* gets exactly that pair's ScenarioSet and RuleSet; the two demonstration
\* inputs get 5 scenarios starting '**用户首次注册场景**' with 6 rules starting
\* '**手机号格式验证规则**', and category lottery, type draw, 5 scenarios starting
\* '**用户参与抽奖场景**' with 6 rules starting '**积分充足验证规则**'.
C6_SpecificMatch ==
  /\ (pc = "done" /\ <<category, api_type>> \in {<<"auth", "login">>, <<"lottery", "draw">>}) =>
       /\ scenarios = API_SCENARIOS[category][api_type]
       /\ rules = BUSINESS_RULES[category][api_type]
  /\ Returned(test_apis[1]) =>
       /\ Len(scenarios) = 5
       /\ scenarios[1] = [line |-> 14, title |-> "u7528u6237u9996u6b21u6ce8u518cu573au666f", closed |-> TRUE]
       /\ Len(rules) = 6
       /\ rules[1] = [line |-> 184, title |-> "u624bu673au53f7u683cu5f0fu9a8cu8bc1u89c4u5219", closed |-> TRUE]
  /\ Returned(test_apis[2]) =>
       /\ category = "lottery" /\ api_type = "draw"
       /\ Len(scenarios) = 5
       /\ scenarios[1] = [line |-> 51, title |-> "u7528u6237u53c2u4e0eu62bdu5956u573au666f", closed |-> TRUE]
       /\ Len(rules) = 6
       /\ rules[1] = [line |-> 202, title |-> "u79efu5206u5145u8db3u9a8cu8bc1u89c4u5219", closed |-> TRUE]

\* The demonstration's lottery input has been resolved to (lottery, draw).
C6_Witness ==
  /\ Returned(test_apis[2])
  /\ category = "lottery" /\ api_type = "draw"
  /\ rules = BUSINESS_RULES["lottery"]["draw"]

\* The fallback chain over one table: the entry of (c, t), else the entry of
\* (c, 'common'), else the default list.
Chain(tbl, dflt, c, t) ==
  IF c \in DOMAIN tbl
  THEN IF t \in DOMAIN tbl[c] THEN tbl[c][t]
       ELSE IF "common" \in DOMAIN tbl[c] THEN tbl[c]["common"] ELSE dflt
  ELSE dflt

\* C7 (independence): the scenario list is the fallback chain over
\* API_SCENARIOS alone and the rule list the fallback chain over BUSINESS_RULES
\* alone; for (points, balance), as for 'GET /api/v4/points/balance' with
\* '查询积分余额', the scenarios are points.balance and the rules points.common.
C7_Independence ==
  /\ pc = "done" =>
       /\ scenarios = Chain(API_SCENARIOS, DefaultScenarios, category, api_type)
       /\ rules = Chain(BUSINESS_RULES, DefaultRules, category, api_type)
  /\ (pc = "done" /\ category = "points" /\ api_type = "balance") =>
       /\ scenarios = API_SCENARIOS["points"]["balance"]
       /\ rules = BUSINESS_RULES["points"]["common"]
  /\ Returned(test_apis[3]) => category = "points" /\ api_type = "balance"

\* The demonstration's points input has been resolved: a specific ScenarioSet
\* next to a RuleSet reached through 'common'.
C7_Witness ==
  /\ Returned(test_apis[3])
  /\ "balance" \in DOMAIN API_SCENARIOS["points"]
  /\ "balance" \notin DOMAIN BUSINESS_RULES["points"]
  /\ scenarios = API_SCENARIOS["points"]["balance"]
  /\ rules = BUSINESS_RULES["points"]["common"]

\* C8 (type classification): the type key is that of the first of the twenty
\* tests, in their order, that the path as given or the description satisfies,
\* and 'common' when none does; '/API/V4/AUTH/LOGIN' with an empty description
\* is category 'auth' and type 'common'.
C8_TypeClassification ==
  /\ pc = "done" => api_type = FirstMatch(TypeTests(path, description), "common")
  /\ Returned(ex_upper) => category = "auth" /\ api_type = "common"

\* The upper-case path has been classified: its category marker matched after
\* case folding, its type keyword did not match.
C8_Witness ==
  /\ Returned(ex_upper)
  /\ Contains(lower(path), kw_login) /\ ~Contains(path, kw_login)
  /\ category = "auth" /\ api_type = "common"

\* C9 (shadowing): no path containing 'users' gets the type 'users'; the type
\* 'users' is returned only when the description contains '用户管理' and none of
\* the 19 earlier tests matches; 'GET /api/v4/admin/users' with an empty
\* description does not get the admin.users ScenarioSet.
C9_UsersShadowed ==
  /\ (pc = "done" /\ Contains(path, kw_users)) => api_type # "users"
  /\ (pc = "done" /\ api_type = "users") =>
       /\ Contains(description, zh_yonghuguanli)
       /\ NoMatch(SubSeq(TypeTests(path, description), 1, 19))
  /\ Returned(ex_admin_users) => scenarios # API_SCENARIOS["admin"]["users"]

\* 'GET /api/v4/admin/users' has been resolved in category admin.
C9_Witness ==
  /\ Returned(ex_admin_users)
  /\ Contains(path, kw_users)
  /\ category = "admin" /\ api_type = "use"

\* The lists the call returns over all inputs.
ReturnedLists ==
  UNION { { r.scenarios, r.rules } :
            r \in { generate_api_content(i[1], i[2]) : i \in Inputs } }

\* C10 (unreachable entry): API_SCENARIOS['inventory']['list'] is returned for
\* no input, the type key never being 'list'; every other list stored in
\* API_SCENARIOS and every list stored in BUSINESS_RULES is returned for some
\* input.
C10_OnlyListUnreachable ==
  /\ pc = "done" =>
       api_type # "list" /\ scenarios # API_SCENARIOS["inventory"]["list"]
  /\ \A c \in DOMAIN API_SCENARIOS : \A t \in DOMAIN API_SCENARIOS[c] :
       <<c, t>> # <<"inventory", "list">> => API_SCENARIOS[c][t] \in ReturnedLists
  /\ \A c \in DOMAIN BUSINESS_RULES : \A t \in DOMAIN BUSINESS_RULES[c] :
       BUSINESS_RULES[c][t] \in ReturnedLists

\* An inventory path containing 'list' has been resolved.
C10_Witness ==
  /\ pc = "done"
  /\ category = "inventory"
  /\ Contains(path, <<"l", "i", "s", "t">>)
  /\ scenarios = DefaultScenarios
====
